---- MODULE Spec2Model ----
(***************************************************************************)
(* Model of the video-factory-automator rendering pipeline:                *)
(*   FrameGeneratorService.renderToCanvas / generateFrames (frame          *)
(*   sequencer), VideoRendererService.renderVideoFromSections /            *)
(*   renderVideo (streaming renderer driving a MediaRecorder), and         *)
(*   VideoGenerationService.generateVideo / cancel (orchestrator) with     *)
(*   TextToSpeechService.textToSpeech; the text functions of framePainter. *)
(*                                                                         *)
(* One action is one JavaScript task (an event handler or a timer          *)
(* continuation together with the promise reactions it triggers).  Where a *)
(* task is split in two actions, the intermediate pc value is not a task   *)
(* boundary and no event of the environment is enabled in it.              *)
(*                                                                         *)
(* Durations are exact rationals n / DurDen seconds, fps is an integer.    *)
(***************************************************************************)
EXTENDS Integers, Sequences, FiniteSets, TLC

(* ---------------------------- bounds ----------------------------------- *)
MaxSections == 2
MaxDurUnits == 1
DurDen == 2
MaxFps == 3
MaxChunks == 1
GenMaxSections == 1
GenMaxFps == 1
FastFps == 9
Late == 10
ProgressDen == 20
MaxLines == 3
MaxText == 5
MaxCanvasWidth == 5
EstLong == 25
MaxCenti == 28
MaxCalls == 2
DoubleFps == 25

(* ----------------------- program constants ----------------------------- *)
YieldEvery == 10
MotionStep == 10
MotionLast == 100
SimStep == 10
SimLast == 100
ThrottleMs == 120
Precision == 53
LimbBits == 15
FracLimbs == 5

VARIABLES
  op,            \* entry point of the run: "renderFromSections", "generateFrames"
                 \*   or "generateVideo"
  sections,      \* Section[]: the durations, in units of 1/DurDen s
  fps,           \* options.fps
  hasAudio,      \* audioBlob supplied to renderVideoFromSections
  signalAborted, \* signal.aborted
  pc,            \* position of the renderer / sequencer / draw loop
  secIdx,        \* index of the section of the for-of loop (1-based)
  i,             \* frame index inside the section
  frameCount,    \* frameCount
  currentTime,   \* currentTime, in units of 1/DurDen s
  totalFrames,   \* totalFrames
  painted,       \* the frames painted so far, in order
  cb,            \* the progress callback the last sequencer step delivered
  seqErr,        \* the error renderToCanvas / generateFrames threw
  recState,      \* MediaRecorder.state ("new" before start())
  recPending,    \* events the recorder still has to fire after going inactive
  recCause,      \* why the recorder left "recording": "stop()", "error", "early"
  startCalls,    \* calls of mediaRecorder.start
  stopCalls,     \* calls of mediaRecorder.stop
  tracksStopped, \* stream.getTracks().forEach(track => track.stop()) ran
  emitted,       \* number of dataavailable events fired
  chunks,        \* chunks[]: ids of the collected non-empty chunks
  result,        \* the promise of renderVideoFromSections / renderVideo
  audioTrack,    \* an audio track was added to the stream
  stage,         \* generateVideo: the stage it is in ("idle" when not running)
  stageLog,      \* generateVideo: stage starts and completions, in order
  motionI,       \* generateVideo: i of the simulated motion loop
  drawn,         \* drawFramesSequentially: i, the frames drawn so far
  cancelCalls,   \* calls of VideoGenerationService.cancel
  ttsAvail,      \* TextToSpeechService.isAvailable()
  utt,           \* the utterance: "none", "speaking", "ended"
  posMoved,      \* currentPosition !== 0
  fallback,      \* the 500 ms timer: "none", "armed", "fired"
  simE,          \* simulateProgress started by onerror / a throwing speak():
                 \*   -1 not started, else progress / SimStep
  simF,          \* simulateProgress started by the 500 ms timer
  ttsResolved,   \* the promise of textToSpeech is resolved
  evs,           \* generateVideo: the progress events the last delivering task
                 \*   passed to onProgress, in order
  hist,          \* generateVideo: what was delivered before evs: the latest
                 \*   step any event reached and the highest progress per step
  emittedLog,    \* per dataavailable event fired, whether its data was non-empty
  surfaces,      \* canvases created by document.createElement('canvas')
  captured,      \* the canvas captureStream was called on (0: none yet)
  cacheBuilds,   \* calls of createSectionPaintCache
  decodeCalls,   \* times the audio branch (arrayBuffer / decodeAudioData) was entered
  sinceEmit,     \* renderToCanvas: now - lastProgressAt at its last step, in ms
                 \*   (all times are cut off just above the throttle gap)
  sinceCb,       \* renderToCanvas: ms since its last progress callback, -1: none yet
  lastGap,       \* renderToCanvas: ms between the callback its last step
                 \*   delivered and the callback before that one, -1: not both
  page,          \* the page (Index.tsx) when it started the run: isGenerating,
                 \*   the status of its four generation steps, the runs it
                 \*   started and the calls of handleGenerate
  pixels,        \* what each canvas shows, by its number in order of creation:
                 \*   the number of the frame last painted or drawn on it
                 \*   (counted from 1), 0 when it is blank
  dbl,           \* renderToCanvas with its numbers as the doubles they are: the
                 \*   durations, the loop position, currentTime, the timestamp
                 \*   of the last paintFrame call and of the call before it
  estimate,      \* estimateGenerationTime: the durations and the result of its
                 \*   last call and of the call before it
  paint,         \* paintFrameWithCache, as far as the text goes: the number of
                 \*   wrapped lines, the progress it was last called with
                 \*   (p / ProgressDen), the opacity (opacity / ProgressDen) and
                 \*   the visible lines it used, and the same of the call before
  codec          \* VideoRendererService and its recorder, as far as the mime
                 \*   type goes: the types isTypeSupported accepts, the
                 \*   mimeType option passed in, this.options.mimeType, the type
                 \*   the recorder was created with, the type of the Blob

rvars == <<pc, secIdx, i, frameCount, currentTime, totalFrames, painted, cb, seqErr>>
evars == <<recState, recPending, recCause, startCalls, stopCalls, tracksStopped, emitted, chunks, result, audioTrack>>
ivars == <<op, sections, fps, hasAudio, ttsAvail, codec, paint>>
gvars == <<stage, stageLog, motionI, drawn, cancelCalls>>
tvars == <<utt, posMoved, fallback, simE, simF, ttsResolved>>
pvars == <<evs, hist, page>>
svars == <<surfaces, captured, cacheBuilds, decodeCalls>>
clock == <<sinceEmit, sinceCb, lastGap>>
xvars == <<estimate, dbl>>
mvars == <<svars, clock, xvars, pixels>>
vars == <<ivars, signalAborted, rvars, evars, gvars, tvars, pvars, emittedLog, mvars>>

(* ---------------------------- helpers ---------------------------------- *)
\* Math.ceil(a / b) for a >= 0, b > 0
Ceil(a, b) == (a + b - 1) \div b

RECURSIVE SumDur(_)
SumDur(s) == IF s = <<>> THEN 0 ELSE Head(s) + SumDur(Tail(s))

\* a frame count that rounds down instead of up
SectionFramesFloor(d, f) == (d * f) \div DurDen

\* Math.ceil(section.duration * this.options.fps)
SectionFrames(d, f) == Ceil(d * f, DurDen)

\* Math.ceil(totalDuration * this.options.fps)
TotalFrames(s, f) == Ceil(SumDur(s) * f, DurDen)

RECURSIVE SumSectionFrames(_, _)
SumSectionFrames(s, f) ==
  IF s = <<>> THEN 0 ELSE SectionFrames(Head(s), f) + SumSectionFrames(Tail(s), f)

NoCb == [cur |-> 0, total |-> 0]
Pending == [kind |-> "pending", err |-> "none", blob |-> <<>>]
Rejected(e) == [kind |-> "rejected", err |-> e, blob |-> <<>>]
Resolved(b) == [kind |-> "resolved", err |-> "none", blob |-> b]

\* resolve / reject of an already settled promise do nothing
Settle(p, outcome) == IF p.kind = "pending" THEN outcome ELSE p

Durations == 1..MaxDurUnits
SectionLists == UNION {[1..n -> Durations] : n \in 0..MaxSections}

Steps == {"tts", "frames", "motion", "render"}

\* a GenerationProgress event: progress = n / d
Ev(step, n, d) == [step |-> step, n |-> n, d |-> d]
NoProgress == [n |-> -1, d |-> 1]

\* the events of one step in a batch of events
OfStep(batch, st) == SelectSeq(batch, LAMBDA e : e.step = st)

StepRank(st) ==
  CASE st = "tts" -> 1 [] st = "frames" -> 2 [] st = "motion" -> 3
    [] st = "render" -> 4 [] OTHER -> 0

\* the larger of two progress values n / d
MaxProgress(a, b) == IF a.n * b.d >= b.n * a.d THEN a ELSE b

RECURSIVE TopRank(_)
TopRank(batch) ==
  IF batch = <<>> THEN 0
  ELSE LET r == StepRank(Head(batch).step)
           t == TopRank(Tail(batch))
       IN IF r >= t THEN r ELSE t

RECURSIVE TopProgress(_)
TopProgress(batch) ==
  IF batch = <<>> THEN NoProgress
  ELSE MaxProgress([n |-> Head(batch).n, d |-> Head(batch).d],
                   TopProgress(Tail(batch)))

\* hist after the events of batch have been delivered too: the latest step
\* reached by any event and, per step, the highest progress delivered
Absorb(h, batch) ==
  [top |-> IF TopRank(batch) >= h.top THEN TopRank(batch) ELSE h.top,
   prog |-> [st \in Steps |->
               MaxProgress(TopProgress(OfStep(batch, st)), h.prog[st])]]

\* createInitialSteps(), Index.tsx lines 55-60
InitialSteps == [idx \in 1..4 |-> "pending"]
NoPage == [isGenerating |-> FALSE, steps |-> InitialSteps, runs |-> 0, calls |-> 0]

\* stepMapping, Index.tsx lines 103-110 (counted from 1)
StepIndex(step) ==
  IF step = "tts" THEN 1 ELSE IF step = "frames" THEN 2
  ELSE IF step = "motion" THEN 3 ELSE 4

\* the setSteps updater of the progress callback, Index.tsx lines 113-126
StepsAfterEvent(steps, e) ==
  [idx \in 1..4 |->
     IF idx = StepIndex(e.step) THEN "running"
     ELSE IF idx < StepIndex(e.step) THEN "complete"
     ELSE steps[idx]]

RECURSIVE StepsAfter(_, _)
StepsAfter(steps, batch) ==
  IF batch = <<>> THEN steps
  ELSE StepsAfter(StepsAfterEvent(steps, Head(batch)), Tail(batch))

\* the progress callback the page passed to generateVideo, if the page
\* started the run
PageAfter(pg, batch) ==
  IF pg.runs = 0 THEN pg ELSE [pg EXCEPT !.steps = StepsAfter(pg.steps, batch)]

\* the rest of handleGenerate once generateVideo has settled with outcome r:
\* Index.tsx lines 143-146 (all steps complete), or the catch block, lines
\* 172-181 (the running step becomes 'error'), and finally
\* setIsGenerating(false), line 183
PageWhenSettled(pg, r) ==
  [pg EXCEPT
     !.isGenerating = FALSE,
     !.steps =
       IF r.kind = "resolved" THEN [idx \in 1..4 |-> "complete"]
       ELSE IF \E idx \in 1..4 : pg.steps[idx] = "running"
         THEN [pg.steps EXCEPT
                 ![CHOOSE idx \in 1..4 :
                     /\ pg.steps[idx] = "running"
                     /\ \A j \in 1..(idx - 1) : pg.steps[j] # "running"] = "error"]
         ELSE pg.steps]

\* the continuation of `await service.generateVideo(...)` in the page, run by
\* the step that settles the promise
PageReacts ==
  page' = IF page.isGenerating /\ result.kind = "pending" /\ result'.kind # "pending"
            THEN PageWhenSettled(page, result')
            ELSE page

\* onProgress?.({step, progress, ...}) called for each event of batch
Deliver(batch) ==
  /\ evs' = batch
  /\ hist' = Absorb(hist, evs)
  /\ page' = PageAfter(page, batch)

MimeTypes == {"vp9", "vp8", "webm", "mp4"}
NoCodec == [at |-> "unused", supported |-> {}, configured |-> "absent",
            mimeType |-> "none", recMime |-> "none", blobType |-> "none"]

NoDouble == [at |-> "unused", durations |-> <<>>, sec |-> 1, i |-> 0,
             currentTime |-> <<>>, count |-> 0, ts |-> <<>>, prevTs |-> <<>>,
             prevSec |-> 0]

NoEstimate == [durations |-> <<>>, seconds |-> -1]

NoPaint == [at |-> "unused", lines |-> 0, p |-> -1, opacity |-> -1, visible |-> -1,
            prevP |-> -1, prevVisible |-> -1]

\* performance.now() at the first call of shouldEmitProgress, where
\* lastProgressAt is still 0: a page just loaded, one 60 ms old, an older one
PageAges == {0, ThrottleMs \div 2, ThrottleMs + 1}

\* a time span, cut off just above the throttle gap
Cap(t) == IF t > ThrottleMs THEN ThrottleMs + 1 ELSE t

\* frameDurationMs = 1000 / fps, as setTimeout takes it
Pace(f) == 1000 \div f

\* the time from one frame to the next: the pacing timer fires on time or late
Elapsed(f) == {Pace(f), Pace(f) + Late}

\* the state every run starts in, whatever its inputs
InitState ==
  /\ evs = <<>> /\ hist = [top |-> 0, prog |-> [st \in Steps |-> NoProgress]]
  /\ emittedLog = <<>>
  /\ surfaces = 0 /\ captured = 0 /\ cacheBuilds = 0 /\ decodeCalls = 0
  /\ sinceCb = -1 /\ lastGap = -1
  /\ estimate = [last |-> NoEstimate, prev |-> NoEstimate]
  /\ dbl = NoDouble
  /\ pixels = <<>>
  /\ page = NoPage
  /\ stage = "idle" /\ stageLog = <<>> /\ motionI = 0 /\ drawn = 0
  /\ cancelCalls = 0
  /\ utt = "none" /\ posMoved = FALSE /\ fallback = "none"
  /\ simE = -1 /\ simF = -1 /\ ttsResolved = FALSE
  /\ pc = "start"
  /\ secIdx = 1 /\ i = 0 /\ frameCount = 0 /\ currentTime = 0 /\ totalFrames = 0
  /\ painted = <<>> /\ cb = NoCb /\ seqErr = "none"
  /\ recState = "new" /\ recPending = "none" /\ recCause = "none"
  /\ startCalls = 0 /\ stopCalls = 0 /\ tracksStopped = FALSE
  /\ emitted = 0 /\ chunks = <<>> /\ result = Pending
  /\ audioTrack = FALSE

\* a run of renderVideoFromSections or of generateFrames
Init ==
  /\ op \in {"renderFromSections", "generateFrames"}
  /\ sections \in SectionLists
  /\ fps \in 1..MaxFps
  /\ hasAudio \in (IF op = "renderFromSections" THEN BOOLEAN ELSE {FALSE})
  /\ signalAborted \in (IF op = "renderFromSections" THEN BOOLEAN ELSE {FALSE})
  /\ sinceEmit \in (IF op = "renderFromSections" THEN PageAges ELSE {0})
  /\ ttsAvail = FALSE
  /\ codec = NoCodec /\ paint = NoPaint
  /\ InitState

\* a run of generateVideo
GenSectionLists == UNION {[1..n -> Durations] : n \in 0..GenMaxSections}

InitGen ==
  /\ op = "generateVideo"
  /\ sections \in GenSectionLists
  /\ fps \in 1..GenMaxFps
  /\ hasAudio = FALSE
  /\ signalAborted = FALSE
  /\ ttsAvail \in BOOLEAN
  /\ sinceEmit = 0
  /\ codec = NoCodec /\ paint = NoPaint
  /\ InitState



(* ------------------ MediaRecorder as the code drives it ---------------- *)
\* mediaRecorder.stop() while recording: the recorder goes inactive and
\* queues its last dataavailable event and its stop event.
RecAfterStop(st) == IF st = "recording" THEN "inactive" ELSE st
PendingAfterStop(st, pend) == IF st = "recording" THEN "data" ELSE pend
CauseAfterStop(st, cause) == IF st = "recording" THEN "stop()" ELSE cause

\* a catch handler whose stop() is not wrapped in try/catch: when stop()
\* throws, the tracks stay live and the secondary error is what is reported
CatchHandlerNoSwallow(err) ==
  /\ stopCalls' = stopCalls + 1
  /\ recState' = RecAfterStop(recState)
  /\ recPending' = PendingAfterStop(recState, recPending)
  /\ recCause' = CauseAfterStop(recState, recCause)
  /\ tracksStopped' = IF recState = "recording" THEN TRUE ELSE tracksStopped
  /\ result' = Settle(result, IF recState = "recording"
                                THEN Rejected(err) ELSE Rejected("InvalidStateError"))
  /\ UNCHANGED <<startCalls, emitted, chunks, audioTrack>>

\* a catch handler that rejects without tearing anything down
CatchHandlerNoTeardown(err) ==
  /\ result' = Settle(result, Rejected(err))
  /\ UNCHANGED <<stopCalls, recState, recPending, recCause, tracksStopped,
                 startCalls, emitted, chunks, audioTrack>>

\* .catch((err) => { try { stop() } catch {}; tracks.stop(); reject(err) })
CatchHandler(err) ==
  /\ stopCalls' = stopCalls + 1
  /\ recState' = RecAfterStop(recState)
  /\ recPending' = PendingAfterStop(recState, recPending)
  /\ recCause' = CauseAfterStop(recState, recCause)
  /\ tracksStopped' = TRUE
  /\ result' = Settle(result, Rejected(err))
  /\ UNCHANGED <<startCalls, emitted, chunks, audioTrack>>

\* a then handler with no catch after it: a throwing stop() leaves the
\* tracks live
ThenHandlerNoCatch ==
  \E stopThrows \in BOOLEAN :
    /\ stopThrows => recState # "recording"
    /\ stopCalls' = stopCalls + 1
    /\ recState' = RecAfterStop(recState)
    /\ recPending' = PendingAfterStop(recState, recPending)
    /\ recCause' = CauseAfterStop(recState, recCause)
    /\ tracksStopped' = IF stopThrows THEN tracksStopped ELSE TRUE
    /\ result' = IF stopThrows THEN Settle(result, Rejected("InvalidStateError")) ELSE result
    /\ UNCHANGED <<startCalls, emitted, chunks, audioTrack>>

\* .then(() => { mediaRecorder.stop(); tracks.stop() }) chained with the
\* .catch above: a stop() that throws (recorder already inactive) lands in
\* the catch handler, which calls stop() once more.
ThenHandler ==
  \E stopThrows \in BOOLEAN :
    /\ stopThrows => recState # "recording"
    /\ stopCalls' = IF stopThrows THEN stopCalls + 2 ELSE stopCalls + 1
    /\ recState' = RecAfterStop(recState)
    /\ recPending' = PendingAfterStop(recState, recPending)
    /\ recCause' = CauseAfterStop(recState, recCause)
    /\ tracksStopped' = TRUE
    /\ result' = IF stopThrows THEN Settle(result, Rejected("InvalidStateError")) ELSE result
    /\ UNCHANGED <<startCalls, emitted, chunks, audioTrack>>

(* ------------------ renderVideoFromSections: set-up -------------------- *)
\* lines 120-148: canvas, captureStream, then the audio branch
RfsBegin ==
  /\ op = "renderFromSections" /\ pc = "start"
  /\ pc' = IF hasAudio THEN "decode" ELSE "record"
  /\ surfaces' = surfaces + 1 /\ captured' = surfaces + 1
  /\ pixels' = Append(pixels, 0)
  /\ UNCHANGED <<gvars, tvars, ivars, signalAborted, secIdx, i, frameCount, currentTime,
                 totalFrames, painted, cb, seqErr, evars>>
  /\ UNCHANGED <<pvars, emittedLog, cacheBuilds, decodeCalls, clock, xvars>>

\* an audio branch without its try/catch: a decode failure rejects
RfsDecodeFatal ==
  /\ pc = "decode"
  /\ \E ok \in BOOLEAN :
       /\ audioTrack' = ok
       /\ pc' = IF ok THEN "record" ELSE "nostart"
       /\ result' = IF ok THEN result ELSE Settle(result, Rejected("DecodeError"))
  /\ UNCHANGED <<gvars, tvars, ivars, signalAborted, secIdx, i, frameCount, currentTime,
                 totalFrames, painted, cb, seqErr, recState, recPending, recCause,
                 startCalls, stopCalls, tracksStopped, emitted, chunks>>
  /\ decodeCalls' = decodeCalls + 1
  /\ UNCHANGED <<pvars, emittedLog, surfaces, captured, cacheBuilds, clock, xvars, pixels>>

\* an audio branch that tries the decode again after a failure
RfsDecodeRetries ==
  /\ pc = "decode" /\ decodeCalls < 2
  /\ \E ok \in BOOLEAN : audioTrack' = ok /\ pc' = (IF ok THEN "record" ELSE "decode")
  /\ UNCHANGED <<gvars, tvars, ivars, signalAborted, secIdx, i, frameCount, currentTime,
                 totalFrames, painted, cb, seqErr, recState, recPending, recCause,
                 startCalls, stopCalls, tracksStopped, emitted, chunks, result>>
  /\ decodeCalls' = decodeCalls + 1
  /\ UNCHANGED <<pvars, emittedLog, surfaces, captured, cacheBuilds, clock, xvars, pixels>>

\* the awaits of arrayBuffer() / decodeAudioData() return or throw
RfsDecode ==
  /\ pc = "decode"
  /\ \E ok \in BOOLEAN : audioTrack' = ok
  /\ pc' = "record"
  /\ UNCHANGED <<gvars, tvars, ivars, signalAborted, secIdx, i, frameCount, currentTime,
                 totalFrames, painted, cb, seqErr, recState, recPending, recCause,
                 startCalls, stopCalls, tracksStopped, emitted, chunks, result>>
  /\ decodeCalls' = decodeCalls + 1
  /\ UNCHANGED <<pvars, emittedLog, surfaces, captured, cacheBuilds, clock, xvars, pixels>>

\* lines 150-179: new MediaRecorder, handlers, try { start(1000) }
RfsRecord ==
  /\ pc = "record"
  /\ startCalls' = startCalls + 1
  /\ \E ok \in BOOLEAN :
       IF ok
         THEN /\ recState' = "recording" /\ pc' = "first" /\ result' = result
         ELSE /\ recState' = recState /\ pc' = "nostart"
              /\ result' = Settle(result, Rejected("StartError"))
  /\ UNCHANGED <<gvars, tvars, ivars, signalAborted, secIdx, i, frameCount, currentTime,
                 totalFrames, painted, cb, seqErr, recPending, recCause,
                 stopCalls, tracksStopped, emitted, chunks, audioTrack>>
  /\ UNCHANGED <<pvars, emittedLog, mvars>>

(* ------------------------ renderToCanvas ------------------------------- *)
\* lines 57-64: getContext, totalDuration, totalFrames
SeqEnter ==
  /\ pc = "first"
  /\ \E ctx \in BOOLEAN :
       IF ctx
         THEN /\ totalFrames' = TotalFrames(sections, fps)
              /\ pc' = "loop" /\ seqErr' = seqErr
              /\ UNCHANGED evars
         ELSE /\ seqErr' = "NoContext" /\ pc' = "finished"
              /\ totalFrames' = totalFrames
              /\ CatchHandler("NoContext")
  /\ UNCHANGED <<gvars, tvars, ivars, signalAborted, secIdx, i, frameCount, currentTime, painted, cb>>
  /\ UNCHANGED <<pvars, emittedLog, mvars>>

\* The position of the nested loops when the body is entered: the inner loop
\* test i < sectionFrames, and on its exit currentTime += section.duration and
\* the next section.
SectionEnded == secIdx <= Len(sections) /\ i >= SectionFrames(sections[secIdx], fps)
CurSec == IF SectionEnded THEN secIdx + 1 ELSE secIdx
CurI == IF SectionEnded THEN 0 ELSE i
\* a loop that never advances currentTime at the end of a section
CurTimeNoAdvance == currentTime
CurTime == IF SectionEnded THEN currentTime + sections[secIdx] ELSE currentTime
LoopDone == CurSec > Len(sections)

\* a sequencer that never looks at the token
AbortCheckIgnored == FALSE

\* a sequencer that looks at the token only after its first frame
AbortCheckAfterFirst == signalAborted /\ frameCount > 0

\* if (signal?.aborted)
AbortCheck == signalAborted

\* a sequencer that looks at the token once more after the last pacing delay
AtFrameBoundaryOrEnd == TRUE

\* the check is the first statement of the loop body, lines 90-91: the token
\* is looked at only when another frame is about to be painted
AtFrameBoundary == ~LoopDone

\* a paint call that counts the frames of a section from one
FrameAtOneBased(s, k, t, c) ==
  [sec |-> s, i |-> k + 1, n |-> SectionFrames(sections[s], fps),
   ts |-> t * fps + k * DurDen, canvas |-> c]

\* a paint call that draws every frame on a canvas of its own
FrameAtOwnCanvas(s, k, t, c) ==
  [sec |-> s, i |-> k, n |-> SectionFrames(sections[s], fps),
   ts |-> t * fps + k * DurDen, canvas |-> c + Len(painted)]

\* the frame paintFrame is called with: section, progress = i / sectionFrames,
\* timestamp = currentTime + i / fps = ts / (DurDen * fps), and the canvas it
\* paints into (the number of the canvas in order of creation)
FrameAt(s, k, t, c) ==
  [sec |-> s, i |-> k, n |-> SectionFrames(sections[s], fps), ts |-> t * fps + k * DurDen,
   canvas |-> c]

\* shouldEmitProgress() || frameCount === totalFrames
EmitProgress(throttleOpen, count, total) == throttleOpen \/ count = total

InLoop == op = "renderFromSections" /\ pc \in {"loop", "await"}

\* lines 91-95 and 197-205: the boundary check sees the token aborted
SeqAbort ==
  /\ InLoop /\ AtFrameBoundary /\ AbortCheck
  /\ seqErr' = "AbortError" /\ pc' = "finished"
  /\ CatchHandler("AbortError")
  /\ UNCHANGED <<gvars, tvars, ivars, signalAborted, secIdx, i, frameCount, currentTime,
                 totalFrames, painted, cb>>
  /\ UNCHANGED <<pvars, emittedLog, mvars>>

\* a loop body whose frame counter starts again with every section
SeqPaintResets ==
  /\ InLoop /\ ~LoopDone /\ ~AbortCheck
  /\ painted' = Append(painted, FrameAt(CurSec, CurI, CurTime, surfaces))
  /\ frameCount' = IF SectionEnded THEN 1 ELSE frameCount + 1
  /\ secIdx' = CurSec /\ i' = CurI + 1 /\ currentTime' = CurTime
  /\ cacheBuilds' = cacheBuilds + 1
  /\ pixels' = [pixels EXCEPT ![surfaces] = frameCount + 1]
  /\ \E elapsed \in (IF pc = "loop" THEN {0} ELSE Elapsed(fps)) :
       LET sinceLast == Cap(sinceEmit + elapsed)
           throttleOpen == sinceLast > ThrottleMs
           emit == EmitProgress(throttleOpen, frameCount + 1, totalFrames)
       IN /\ sinceEmit' = IF throttleOpen THEN 0 ELSE sinceLast
          /\ cb' = IF emit THEN [cur |-> frameCount + 1, total |-> totalFrames]
                    ELSE NoCb
          /\ lastGap' = IF emit /\ sinceCb # -1 THEN Cap(sinceCb + elapsed) ELSE -1
          /\ sinceCb' = IF emit THEN 0
                        ELSE IF sinceCb = -1 THEN -1 ELSE Cap(sinceCb + elapsed)
  /\ pc' = "await"
  /\ UNCHANGED <<gvars, tvars, ivars, signalAborted, totalFrames, seqErr, evars>>
  /\ UNCHANGED <<pvars, emittedLog, surfaces, captured, decodeCalls, xvars>>

\* lines 97-116: one frame painted, counted, reported, then the pacing timer
SeqPaint ==
  /\ InLoop /\ ~LoopDone /\ ~AbortCheck
  /\ painted' = Append(painted, FrameAt(CurSec, CurI, CurTime, surfaces))
  /\ frameCount' = frameCount + 1
  /\ secIdx' = CurSec /\ i' = CurI + 1 /\ currentTime' = CurTime
  /\ cacheBuilds' = cacheBuilds + 1
  /\ pixels' = [pixels EXCEPT ![surfaces] = frameCount + 1]
  /\ \E elapsed \in (IF pc = "loop" THEN {0} ELSE Elapsed(fps)) :
       LET sinceLast == Cap(sinceEmit + elapsed)
           throttleOpen == sinceLast > ThrottleMs
           emit == EmitProgress(throttleOpen, frameCount + 1, totalFrames)
       IN /\ sinceEmit' = IF throttleOpen THEN 0 ELSE sinceLast
          /\ cb' = IF emit THEN [cur |-> frameCount + 1, total |-> totalFrames]
                    ELSE NoCb
          /\ lastGap' = IF emit /\ sinceCb # -1 THEN Cap(sinceCb + elapsed) ELSE -1
          /\ sinceCb' = IF emit THEN 0
                        ELSE IF sinceCb = -1 THEN -1 ELSE Cap(sinceCb + elapsed)
  /\ pc' = "await"
  /\ UNCHANGED <<gvars, tvars, ivars, signalAborted, totalFrames, seqErr, evars>>
  /\ UNCHANGED <<pvars, emittedLog, surfaces, captured, decodeCalls, xvars>>

\* paintFrame (or the progress callback) throws
SeqPaintFails ==
  /\ InLoop /\ ~LoopDone /\ ~AbortCheck
  /\ seqErr' = "PaintError" /\ pc' = "finished"
  /\ CatchHandler("PaintError")
  /\ UNCHANGED <<gvars, tvars, ivars, signalAborted, secIdx, i, frameCount, currentTime,
                 totalFrames, painted, cb>>
  /\ UNCHANGED <<pvars, emittedLog, mvars>>

\* the loops are exhausted: renderToCanvas resolves, lines 193-196
SeqComplete ==
  /\ InLoop /\ LoopDone /\ ~(AtFrameBoundary /\ AbortCheck)
  /\ pc' = "finished"
  /\ ThenHandler
  /\ UNCHANGED <<gvars, tvars, ivars, signalAborted, secIdx, i, frameCount, currentTime,
                 totalFrames, painted, cb, seqErr>>
  /\ UNCHANGED <<pvars, emittedLog, mvars>>

(* ------------------------- generateVideo ------------------------------- *)
\* The promise generateVideo returns settles with the promise of renderVideo
\* it awaits (return videoBlob / throw error): `result` is that outcome.
GvSettles(r) ==
  op = "generateVideo" /\ stage = "render" /\ result.kind = "pending" /\ r.kind # "pending"
\* a rejection of renderVideo that leaves generateVideo in its render stage
StageAfterRetry(r) ==
  IF GvSettles(r) /\ r.kind = "resolved" THEN "done" ELSE stage
StageAfter(r) ==
  IF GvSettles(r) THEN (IF r.kind = "resolved" THEN "done" ELSE "failed") ELSE stage
LogAfter(r) ==
  IF GvSettles(r) /\ r.kind = "resolved" THEN Append(stageLog, "render_done") ELSE stageLog

\* the continuation of `await this.ttsService.textToSpeech(...)`, lines 207-224:
\* the 'frames' event, new FrameGeneratorService, the entry of generateFrames
EnterFrames(log) ==
  /\ stage' = "frames" /\ pc' = "gfLoop"
  /\ stageLog' = log \o <<"tts_done", "frames">>
  /\ totalFrames' = TotalFrames(sections, fps)

\* a continuation run by every resolve(null), not only by the first
TtsResolveEveryTime ==
  /\ ttsResolved' = TRUE
  /\ EnterFrames(stageLog)

\* the 'frames' event of the continuation, delivered when the promise of
\* textToSpeech is resolved for the first time
FramesEvent == IF ttsResolved THEN <<>> ELSE <<Ev("frames", 0, 1)>>

\* resolve(null) of textToSpeech: only the first call has an effect
TtsResolve ==
  /\ ttsResolved' = TRUE
  /\ IF ttsResolved
       THEN UNCHANGED <<stage, stageLog, totalFrames, pc>>
       ELSE EnterFrames(stageLog)

\* generateVideo is called: the 'tts' event and textToSpeech up to its return
GvBegin ==
  /\ op = "generateVideo" /\ pc = "start" /\ stage = "idle"
  /\ \E how \in {"speaks", "speakThrows", "utteranceThrows"} :
       IF ~ttsAvail \/ how = "utteranceThrows"
         THEN \* onProgress?.(100); return null / resolve(null)
              /\ ttsResolved' = TRUE
              /\ EnterFrames(<<"tts">>)
              /\ Deliver(<<Ev("tts", 0, 1), Ev("tts", 100, 1), Ev("frames", 0, 1)>>)
              /\ UNCHANGED <<utt, fallback, simE>>
         ELSE /\ stage' = "tts" /\ stageLog' = <<"tts">> /\ pc' = pc
              /\ Deliver(<<Ev("tts", 0, 1)>>)
              /\ ttsResolved' = ttsResolved /\ totalFrames' = totalFrames
              /\ IF how = "speaks"
                   THEN utt' = "speaking" /\ fallback' = "armed" /\ simE' = simE
                   ELSE utt' = utt /\ fallback' = fallback /\ simE' = 0
  /\ UNCHANGED <<ivars, signalAborted, secIdx, i, frameCount, currentTime,
                 painted, cb, seqErr, evars, motionI, drawn, cancelCalls, posMoved, simF>>
  /\ UNCHANGED <<emittedLog, mvars>>

\* generateFrames is called on its own, lines 130-135
GfCall ==
  /\ op = "generateFrames" /\ pc = "start"
  /\ pc' = "gfLoop"
  /\ totalFrames' = TotalFrames(sections, fps)
  /\ UNCHANGED <<ivars, signalAborted, secIdx, i, frameCount, currentTime,
                 painted, cb, seqErr, evars, gvars, tvars>>
  /\ UNCHANGED <<pvars, emittedLog, mvars>>

\* generateFrames, lines 140-150: one frame generated, pushed and reported
GfFrame ==
  /\ pc = "gfLoop" /\ ~LoopDone
  /\ \E ok \in BOOLEAN :
       IF ok
         THEN /\ painted' = Append(painted, FrameAt(CurSec, CurI, CurTime, surfaces + 1))
              /\ surfaces' = surfaces + 1 /\ cacheBuilds' = cacheBuilds + 1
              /\ pixels' = Append(pixels, frameCount + 1)
              /\ frameCount' = frameCount + 1
              /\ secIdx' = CurSec /\ i' = CurI + 1 /\ currentTime' = CurTime
              /\ cb' = [cur |-> frameCount + 1, total |-> totalFrames]
              /\ Deliver(IF op = "generateVideo"
                           THEN <<Ev("frames", 100 * (frameCount + 1), totalFrames)>>
                           ELSE <<>>)
              /\ UNCHANGED <<seqErr, result, stage, pc>>
         ELSE \* generateFrame throws, its canvas already created: generateFrames
              \* and generateVideo reject
              /\ seqErr' = "PaintError" /\ pc' = "finished"
              /\ stage' = IF op = "generateVideo" THEN "failed" ELSE stage
              /\ result' = Settle(result, Rejected("PaintError"))
              /\ surfaces' = surfaces + 1 /\ pixels' = Append(pixels, 0)
              /\ PageReacts
              /\ UNCHANGED <<painted, frameCount, secIdx, i, currentTime, cb, evs, hist,
                             cacheBuilds>>
  /\ UNCHANGED <<ivars, signalAborted, totalFrames, recState, recPending,
                 recCause, startCalls, stopCalls, tracksStopped, emitted, chunks,
                 audioTrack, stageLog, motionI, drawn, cancelCalls, tvars, emittedLog,
                 captured, decodeCalls, clock, xvars>>

\* generateFrames returns its frames; in generateVideo, lines 238-242: the
\* 'motion' event
GfDone ==
  /\ pc = "gfLoop" /\ LoopDone
  /\ IF op = "generateVideo"
       THEN /\ stage' = "motion" /\ pc' = "start"
            /\ stageLog' = stageLog \o <<"frames_done", "motion">>
            /\ result' = result
       ELSE /\ pc' = "finished" /\ result' = Settle(result, Resolved(<<>>))
            /\ UNCHANGED <<stage, stageLog>>
  /\ UNCHANGED <<ivars, signalAborted, secIdx, i, frameCount, currentTime,
                 totalFrames, painted, cb, seqErr, recState, recPending, recCause,
                 startCalls, stopCalls, tracksStopped, emitted, chunks, audioTrack,
                 motionI, drawn, cancelCalls, tvars>>
  /\ IF op = "generateVideo" THEN Deliver(<<Ev("motion", 0, 1)>>) ELSE UNCHANGED pvars
  /\ UNCHANGED <<emittedLog, mvars>>

\* for (let i = 0; i <= 100; i += 10) { await timer; onProgress(i) }
MotionLoopEnds(m) == m > MotionLast

\* one 50 ms timer of the motion loop; when the loop ends, the 'render'
\* event and the call of renderVideo
MotionTick ==
  /\ stage = "motion"
  /\ motionI' = motionI + MotionStep
  /\ IF MotionLoopEnds(motionI + MotionStep)
       THEN /\ stage' = "render" /\ pc' = "rvRecord"
            /\ stageLog' = stageLog \o <<"motion_done", "render">>
       ELSE UNCHANGED <<stage, pc, stageLog>>
  /\ UNCHANGED <<ivars, signalAborted, secIdx, i, frameCount, currentTime,
                 totalFrames, painted, cb, seqErr, evars, drawn, cancelCalls, tvars>>
  /\ Deliver(<<Ev("motion", motionI, 1)>>
             \o (IF MotionLoopEnds(motionI + MotionStep) THEN <<Ev("render", 0, 1)>> ELSE <<>>))
  /\ UNCHANGED <<emittedLog, mvars>>

\* renderVideo, lines 44-99, and the entry of drawFramesSequentially
RvRecord ==
  /\ pc = "rvRecord"
  /\ \E how \in {"ok", "startThrows", "noContext"} :
       LET r == IF painted = <<>> THEN Rejected("NoFrames")
                ELSE IF how = "startThrows" THEN Rejected("StartError")
                ELSE IF how = "noContext" THEN Rejected("NoContext")
                ELSE result
       IN /\ result' = Settle(result, r)
          /\ stage' = StageAfter(r)
          /\ pc' = IF painted # <<>> /\ how = "ok" THEN "drawLoop" ELSE "finished"
          /\ startCalls' = IF painted = <<>> THEN startCalls ELSE startCalls + 1
          /\ recState' = IF painted # <<>> /\ how # "startThrows" THEN "recording" ELSE recState
  /\ UNCHANGED <<ivars, signalAborted, secIdx, i, frameCount, currentTime,
                 totalFrames, painted, cb, seqErr, recPending, recCause, stopCalls,
                 tracksStopped, emitted, chunks, audioTrack, stageLog, motionI,
                 drawn, cancelCalls, tvars>>
  \* const canvas = frames[0].canvas; canvas.captureStream(fps)
  /\ captured' = IF painted = <<>> THEN captured ELSE painted[1].canvas
  /\ UNCHANGED <<evs, hist, emittedLog, surfaces, cacheBuilds, decodeCalls, clock, xvars,
                 pixels>>
  /\ PageReacts

InDraw == op = "generateVideo" /\ pc \in {"drawLoop", "await"}

\* drawFramesSequentially, lines 224-237: one frame drawn and reported
DrawFrame ==
  /\ InDraw /\ drawn < Len(painted)
  /\ drawn' = drawn + 1
  /\ pc' = "await"
  /\ UNCHANGED <<ivars, signalAborted, secIdx, i, frameCount, currentTime,
                 totalFrames, painted, cb, seqErr, evars, stage, stageLog, motionI,
                 cancelCalls, tvars>>
  \* ctx.clearRect on the target canvas, then ctx.drawImage(frame.canvas, 0, 0)
  /\ LET cleared == [pixels EXCEPT ![captured] = 0]
     IN pixels' = [cleared EXCEPT ![captured] = cleared[painted[drawn + 1].canvas]]
  /\ Deliver(<<Ev("render", 100 * (drawn + 1), Len(painted))>>)
  /\ UNCHANGED <<emittedLog, svars, clock, xvars>>

\* lines 100-104: .then(() => { stop(); tracks.stop() }).catch(reject)
DrawComplete ==
  /\ InDraw /\ drawn = Len(painted)
  /\ pc' = "finished"
  /\ \E stopThrows \in BOOLEAN :
       /\ stopThrows => recState # "recording"
       /\ stopCalls' = stopCalls + 1
       /\ recState' = RecAfterStop(recState)
       /\ recPending' = PendingAfterStop(recState, recPending)
       /\ recCause' = CauseAfterStop(recState, recCause)
       /\ tracksStopped' = IF stopThrows THEN tracksStopped ELSE TRUE
       /\ LET r == IF stopThrows THEN Rejected("InvalidStateError") ELSE result
          IN result' = Settle(result, r) /\ stage' = StageAfter(r)
  /\ UNCHANGED <<ivars, signalAborted, secIdx, i, frameCount, currentTime,
                 totalFrames, painted, cb, seqErr, startCalls, emitted, chunks,
                 audioTrack, stageLog, motionI, drawn, cancelCalls, tvars>>
  /\ UNCHANGED <<evs, hist, emittedLog, mvars>>
  /\ PageReacts

\* cancel(): this.ttsService.cancel(), i.e. speechSynthesis.cancel()
CancelEffect(st) == st

\* the caller calls cancel() while generateVideo is in one of its stages
Cancel ==
  /\ stage \in {"tts", "frames", "motion", "render"}
  /\ cancelCalls = 0
  /\ cancelCalls' = cancelCalls + 1
  /\ stage' = CancelEffect(stage)
  /\ UNCHANGED <<ivars, signalAborted, rvars, evars, stageLog, motionI, drawn, tvars>>
  /\ UNCHANGED <<pvars, emittedLog, mvars>>

(* ---------------------- events of the environment ---------------------- *)
\* Event handlers run between tasks only.
TaskBoundary ==
  IF op = "renderFromSections"
    THEN pc \in {"decode", "await", "finished", "nostart"}
    ELSE \/ stage \in {"tts", "motion"}
         \/ pc = "gfLoop" /\ frameCount > 0 /\ frameCount % YieldEvery = 0
         \/ pc \in {"await", "finished"}

\* the caller's AbortController.abort()
Abort ==
  /\ pc \in {"decode", "await"} /\ ~signalAborted
  /\ signalAborted' = TRUE
  /\ UNCHANGED <<gvars, tvars, ivars, rvars, evars>>
  /\ UNCHANGED <<pvars, emittedLog, mvars>>

\* a handler that puts each new chunk in front (unshift for push)
CollectInFront(nonEmpty) ==
  /\ emitted' = emitted + 1
  /\ chunks' = IF nonEmpty THEN <<emitted + 1>> \o chunks ELSE chunks

\* ondataavailable: if (event.data && event.data.size > 0) chunks.push(event.data)
Collect(nonEmpty) ==
  /\ emitted' = emitted + 1
  /\ chunks' = IF nonEmpty THEN Append(chunks, emitted + 1) ELSE chunks

\* a timeslice flush while recording
EncoderData ==
  /\ TaskBoundary /\ recState = "recording" /\ emitted < MaxChunks
  /\ \E nonEmpty \in BOOLEAN :
       emittedLog' = Append(emittedLog, nonEmpty) /\ Collect(nonEmpty)
  /\ UNCHANGED <<gvars, tvars, ivars, signalAborted, rvars, recState, recPending, recCause,
                 startCalls, stopCalls, tracksStopped, result, audioTrack>>
  /\ UNCHANGED <<pvars, mvars>>

\* onerror: reject(new Error(`MediaRecorder error: ...`)); the recorder is
\* inactive from then on and still fires dataavailable and stop
EncoderError ==
  /\ TaskBoundary /\ recState = "recording"
  /\ recState' = "inactive" /\ recPending' = "data" /\ recCause' = "error"
  /\ result' = Settle(result, Rejected("EncoderError"))
  /\ stage' = StageAfter(Rejected("EncoderError"))
  /\ UNCHANGED <<stageLog, motionI, drawn, cancelCalls, tvars, ivars, signalAborted, rvars, startCalls, stopCalls,
                 tracksStopped, emitted, chunks, audioTrack>>
  /\ UNCHANGED <<evs, hist, emittedLog, mvars>>
  /\ PageReacts

\* the recorder stops by itself (all tracks of the stream ended)
EncoderEarlyStop ==
  /\ TaskBoundary /\ recState = "recording"
  /\ recState' = "inactive" /\ recPending' = "data" /\ recCause' = "early"
  /\ UNCHANGED <<gvars, tvars, ivars, signalAborted, rvars, startCalls, stopCalls,
                 tracksStopped, emitted, chunks, result, audioTrack>>
  /\ UNCHANGED <<pvars, emittedLog, mvars>>

\* the last dataavailable of an inactive recorder
EncoderLastData ==
  /\ TaskBoundary /\ recPending = "data"
  /\ \E nonEmpty \in BOOLEAN :
       emittedLog' = Append(emittedLog, nonEmpty) /\ Collect(nonEmpty)
  /\ recPending' = "stop"
  /\ UNCHANGED <<gvars, tvars, ivars, signalAborted, rvars, recState, recCause,
                 startCalls, stopCalls, tracksStopped, result, audioTrack>>
  /\ UNCHANGED <<pvars, mvars>>

\* onstop: resolve(new Blob(chunks, ...))
EncoderStopEvent ==
  /\ TaskBoundary /\ recPending = "stop"
  /\ recPending' = "done"
  /\ result' = Settle(result, Resolved(chunks))
  /\ stage' = StageAfter(Resolved(chunks))
  /\ stageLog' = LogAfter(Resolved(chunks))
  /\ UNCHANGED <<motionI, drawn, cancelCalls, tvars, ivars, signalAborted, rvars, recState, recCause,
                 startCalls, stopCalls, tracksStopped, emitted, chunks, audioTrack>>
  /\ UNCHANGED <<evs, hist, emittedLog, mvars>>
  /\ PageReacts

(* -------------------- events of the speech engine ---------------------- *)
\* Math.min(100, (currentPosition / totalLength) * 100) of a boundary event
\* past the first character: some value strictly between 0 and 100
BoundaryProgress == 100 \div 2

\* utterance.onboundary: currentPosition = event.charIndex; onProgress(...)
UttBoundary ==
  /\ TaskBoundary /\ utt = "speaking"
  /\ \E moved \in BOOLEAN :
       /\ posMoved' = (posMoved \/ moved)
       /\ Deliver(<<Ev("tts", IF posMoved \/ moved THEN BoundaryProgress ELSE 0, 1)>>)
  /\ UNCHANGED <<emittedLog, mvars>>
  /\ UNCHANGED <<ivars, signalAborted, rvars, evars, gvars, utt, fallback, simE,
                 simF, ttsResolved>>

\* utterance.onend: onProgress(100); resolve(null)
UttEnd ==
  /\ TaskBoundary /\ utt = "speaking"
  /\ utt' = "ended"
  /\ TtsResolve
  /\ UNCHANGED <<ivars, signalAborted, secIdx, i, frameCount, currentTime,
                 painted, cb, seqErr, evars, motionI, drawn, cancelCalls, posMoved, fallback, simE, simF>>
  /\ Deliver(<<Ev("tts", 100, 1)>> \o FramesEvent)
  /\ UNCHANGED <<emittedLog, mvars>>

\* an onerror that rejects the promise of textToSpeech, which generateVideo
\* rethrows
UttErrorRejects ==
  /\ TaskBoundary /\ utt = "speaking"
  /\ utt' = "ended"
  /\ stage' = IF stage = "tts" THEN "failed" ELSE stage
  /\ result' = IF stage = "tts" THEN Settle(result, Rejected("SpeechError")) ELSE result
  /\ UNCHANGED <<ivars, signalAborted, rvars, recState, recPending, recCause, startCalls,
                 stopCalls, tracksStopped, emitted, chunks, audioTrack, stageLog, motionI,
                 drawn, cancelCalls, posMoved, fallback, simE, simF, ttsResolved>>
  /\ UNCHANGED <<pvars, emittedLog, mvars>>

\* utterance.onerror: simulateProgress()
UttError ==
  /\ TaskBoundary /\ utt = "speaking"
  /\ utt' = "ended"
  /\ simE' = 0
  /\ UNCHANGED <<ivars, signalAborted, rvars, evars, gvars, posMoved, fallback,
                 simF, ttsResolved>>
  /\ UNCHANGED <<pvars, emittedLog, mvars>>

\* the 500 ms timer: if (currentPosition === 0) { cancel(); simulateProgress() }
FallbackTimer ==
  /\ TaskBoundary /\ fallback = "armed"
  /\ fallback' = "fired"
  /\ simF' = IF posMoved THEN simF ELSE 0
  /\ UNCHANGED <<ivars, signalAborted, rvars, evars, gvars, utt, posMoved, simE,
                 ttsResolved>>
  /\ UNCHANGED <<pvars, emittedLog, mvars>>

\* Math.min(100, progress) after p ticks of the interval
SimProgress(p) == IF p * SimStep > SimLast THEN SimLast ELSE p * SimStep

\* if (progress >= 100) { clearInterval(interval); resolve(null) }
SimEnds(p) == p * SimStep >= SimLast

\* one 100 ms tick of a simulateProgress interval
SimTickE ==
  /\ TaskBoundary /\ simE >= 0 /\ ~SimEnds(simE)
  /\ simE' = simE + 1
  /\ IF SimEnds(simE + 1)
       THEN TtsResolve
       ELSE UNCHANGED <<ttsResolved, stage, stageLog, totalFrames, pc>>
  /\ UNCHANGED <<ivars, signalAborted, secIdx, i, frameCount, currentTime,
                 painted, cb, seqErr, evars, motionI, drawn, cancelCalls, utt, posMoved, fallback, simF>>
  /\ Deliver(<<Ev("tts", SimProgress(simE + 1), 1)>>
             \o (IF SimEnds(simE + 1) THEN FramesEvent ELSE <<>>))
  /\ UNCHANGED <<emittedLog, mvars>>

SimTickF ==
  /\ TaskBoundary /\ simF >= 0 /\ ~SimEnds(simF)
  /\ simF' = simF + 1
  /\ IF SimEnds(simF + 1)
       THEN TtsResolve
       ELSE UNCHANGED <<ttsResolved, stage, stageLog, totalFrames, pc>>
  /\ UNCHANGED <<ivars, signalAborted, secIdx, i, frameCount, currentTime,
                 painted, cb, seqErr, evars, motionI, drawn, cancelCalls, utt, posMoved, fallback, simE>>
  /\ Deliver(<<Ev("tts", SimProgress(simF + 1), 1)>>
             \o (IF SimEnds(simF + 1) THEN FramesEvent ELSE <<>>))
  /\ UNCHANGED <<emittedLog, mvars>>

Next ==
  \/ RfsBegin \/ RfsDecode \/ RfsRecord
  \/ SeqEnter \/ SeqAbort \/ SeqPaint \/ SeqPaintFails \/ SeqComplete
  \/ Abort
  \/ GfCall \/ GfFrame \/ GfDone
  \/ EncoderData \/ EncoderError \/ EncoderEarlyStop \/ EncoderLastData
  \/ EncoderStopEvent

Spec == Init /\ [][Next]_vars

NextGen ==
  \/ GvBegin \/ GfFrame \/ GfDone \/ MotionTick \/ RvRecord \/ DrawFrame \/ DrawComplete
  \/ Cancel
  \/ EncoderData \/ EncoderError \/ EncoderEarlyStop \/ EncoderLastData
  \/ EncoderStopEvent
  \/ UttBoundary \/ UttEnd \/ UttError \/ FallbackTimer \/ SimTickE \/ SimTickF

SpecGen == InitGen /\ [][NextGen]_vars

(* --------------- the page: handleGenerate and its step list ------------- *)
\* handleGenerate, Index.tsx lines 79-83: returns at once while isGenerating,
\* else sets isGenerating and resets the steps; generateVideo is called next
\* in the same task.  (The model follows one run of the service.)
HandleGenerate ==
  /\ op = "generateVideo" /\ page.calls < MaxCalls
  /\ page.isGenerating \/ page.runs = 0
  /\ page' = IF page.isGenerating
               THEN [page EXCEPT !.calls = page.calls + 1]
               ELSE [isGenerating |-> TRUE, steps |-> InitialSteps,
                     runs |-> page.runs + 1, calls |-> page.calls + 1]
  /\ UNCHANGED <<ivars, signalAborted, rvars, evars, gvars, tvars, evs, hist,
                 emittedLog, mvars>>

\* service.generateVideo(sections, callback), Index.tsx line 101
PageGenerateVideo == page.runs > 0 /\ GvBegin

NextPage ==
  \/ HandleGenerate \/ PageGenerateVideo
  \/ GfFrame \/ GfDone \/ MotionTick \/ RvRecord \/ DrawFrame \/ DrawComplete
  \/ Cancel
  \/ EncoderData \/ EncoderError \/ EncoderEarlyStop \/ EncoderLastData
  \/ EncoderStopEvent
  \/ UttBoundary \/ UttEnd \/ UttError \/ FallbackTimer \/ SimTickE \/ SimTickF

\* a run of generateVideo started by the page
SpecPage == InitGen /\ [][NextPage]_vars

(* ------------- VideoRendererService: the choice of mime type ------------ *)
\* a VideoRendererService is about to be constructed with a mimeType option
\* (or none) in a browser that supports some set of types
InitCodec ==
  /\ op = "newRenderer" /\ sections = <<>> /\ fps = 1
  /\ hasAudio = FALSE /\ signalAborted = FALSE /\ ttsAvail = FALSE
  /\ sinceEmit = 0
  /\ paint = NoPaint
  /\ \E sup \in SUBSET MimeTypes, conf \in MimeTypes \cup {"absent"} :
       codec = [NoCodec EXCEPT !.at = "new", !.supported = sup, !.configured = conf]
  /\ InitState

\* a constructor without the VP8 step
SelectMimeNoVp8(conf, sup) ==
  LET m0 == IF conf = "absent" THEN "vp9" ELSE conf
  IN IF m0 \notin sup THEN "webm" ELSE m0

\* constructor, lines 19-33: the default, then the two fallbacks
SelectMime(conf, sup) ==
  LET m0 == IF conf = "absent" THEN "vp9" ELSE conf
      m1 == IF m0 \notin sup THEN "vp8" ELSE m0
  IN IF m1 \notin sup THEN "webm" ELSE m1

CodecUnchanged ==
  UNCHANGED <<op, sections, fps, hasAudio, ttsAvail, paint, signalAborted, rvars, evars,
              gvars, tvars, pvars, emittedLog, mvars>>

\* new VideoRendererService(options)
Construct ==
  /\ codec.at = "new"
  /\ codec' = [codec EXCEPT !.at = "constructed",
                             !.mimeType = SelectMime(codec.configured, codec.supported)]
  /\ CodecUnchanged

\* new MediaRecorder(stream, {mimeType: this.options.mimeType, ...}): throws
\* NotSupportedError for a type the browser does not support
NewRecorder ==
  /\ codec.at = "constructed"
  /\ codec' = IF codec.mimeType \in codec.supported
                 THEN [codec EXCEPT !.at = "recorder", !.recMime = codec.mimeType]
                 ELSE [codec EXCEPT !.at = "notSupported"]
  /\ CodecUnchanged

\* onstop: new Blob(chunks, {type: this.options.mimeType})
TagBlob ==
  /\ codec.at = "recorder"
  /\ codec' = [codec EXCEPT !.at = "blob", !.blobType = codec.mimeType]
  /\ CodecUnchanged

NextCodec == Construct \/ NewRecorder \/ TagBlob

SpecCodec == InitCodec /\ [][NextCodec]_vars

\* generateVideo up to the end of its text-to-speech stage: the steps of
\* textToSpeech, the engine events, its timers and cancel()
NextTts ==
  \/ GvBegin \/ Cancel
  \/ UttBoundary \/ UttEnd \/ UttError \/ FallbackTimer \/ SimTickE \/ SimTickF

SpecTts == InitGen /\ [][NextTts]_vars

\* the speech engine ends every utterance with an end or an error event, and
\* the timers of textToSpeech fire
FairSpecTts ==
  /\ SpecTts
  /\ WF_vars(UttEnd \/ UttError)
  /\ WF_vars(FallbackTimer) /\ WF_vars(SimTickE) /\ WF_vars(SimTickF)

\* only the timers of textToSpeech fire; the speech engine may stay silent
TimerFairSpecTts ==
  /\ SpecTts
  /\ WF_vars(FallbackTimer) /\ WF_vars(SimTickE) /\ WF_vars(SimTickF)

(* ---------------- framePainter: the text of one frame ------------------ *)
\* Progress values are k / ProgressDen, opacities are returned as the
\* numerator over ProgressDen; both are exact, not rounded to doubles.

\* an opacity that fades in and never fades out
OpacityNoFadeOut(k) ==
  IF 10 * k < ProgressDen THEN 10 * k ELSE ProgressDen

\* calculateTextOpacity(progress), lines 150-154
calculateTextOpacity(k) ==
  IF 10 * k < ProgressDen THEN 10 * k
  ELSE IF 10 * k > 9 * ProgressDen THEN 10 * (ProgressDen - k)
  ELSE ProgressDen

\* a reveal at single speed: all lines shown only at progress 1
VisibleLinesSlow(k, n) ==
  IF Ceil(n * k, ProgressDen) < n THEN Ceil(n * k, ProgressDen) ELSE n

\* Math.min(lines.length, Math.ceil(lines.length * progress * 2)), lines 128-132
visibleLines(k, n) ==
  IF Ceil(n * k * 2, ProgressDen) < n THEN Ceil(n * k * 2, ProgressDen) ELSE n

\* a section paint cache with some number of wrapped content lines
InitPaint ==
  /\ op = "paintFrame" /\ sections = <<>> /\ fps = 1
  /\ hasAudio = FALSE /\ signalAborted = FALSE /\ ttsAvail = FALSE
  /\ sinceEmit = 0 /\ codec = NoCodec
  /\ \E n \in 0..MaxLines : paint = [NoPaint EXCEPT !.at = "cache", !.lines = n]
  /\ InitState

\* paintFrameWithCache called with some progress
PaintFrameWithCache ==
  /\ paint.at \in {"cache", "painted"}
  /\ \E k \in 0..ProgressDen :
       paint' = [at |-> "painted", lines |-> paint.lines, p |-> k,
                 opacity |-> calculateTextOpacity(k),
                 visible |-> visibleLines(k, paint.lines),
                 prevP |-> paint.p, prevVisible |-> paint.visible]
  /\ UNCHANGED <<op, sections, fps, hasAudio, ttsAvail, codec, signalAborted, rvars,
                 evars, gvars, tvars, pvars, emittedLog, mvars>>

NextPaint == PaintFrameWithCache

SpecPaint == InitPaint /\ [][NextPaint]_vars

(* ------------- framePainter: wrapping the content of a section ---------- *)
\* A string is a sequence of characters.  The canvas measures a line as the
\* sum of the advance widths of its characters (a narrow letter, a wide
\* letter and the space); widths and the canvas width are in the same unit,
\* maxWidth = canvas.width * 0.8 is kept in tenths of it.
Chars == {"i", "m", " "}
Texts == UNION {[1..n -> Chars] : n \in 0..MaxText}
CanvasWidths == 1..MaxCanvasWidth

CharWidth(c) == IF c = "m" THEN 2 ELSE 1

RECURSIVE measureTextNoSpaces(_)
\* a measurement in which a space takes no room
measureTextNoSpaces(line) ==
  IF line = <<>> THEN 0
  ELSE (IF Head(line) = " " THEN 0 ELSE CharWidth(Head(line)))
       + measureTextNoSpaces(Tail(line))

RECURSIVE measureText(_)
\* ctx.measureText(testLine).width, line 163
measureText(line) ==
  IF line = <<>> THEN 0 ELSE CharWidth(Head(line)) + measureText(Tail(line))

RECURSIVE SplitFrom(_, _, _)
\* text.split(' '): the words between the spaces; k is the next character,
\* word the word being read
SplitFrom(text, k, word) ==
  IF k > Len(text) THEN <<word>>
  ELSE IF text[k] = " " THEN <<word>> \o SplitFrom(text, k + 1, <<>>)
  ELSE SplitFrom(text, k + 1, Append(word, text[k]))

Split(text) == SplitFrom(text, 1, <<>>)

RECURSIVE WrapFrom(_, _, _, _)
\* the for-of loop of wrapText and the push after it, lines 161-174
WrapFrom(words, lines, currentLine, maxWidth10) ==
  IF words = <<>>
    THEN (IF currentLine # <<>> THEN Append(lines, currentLine) ELSE lines)
    ELSE LET word == Head(words)
             testLine == currentLine \o (IF currentLine # <<>> THEN <<" ">> ELSE <<>>)
                         \o word
         IN IF 10 * measureText(testLine) > maxWidth10 /\ currentLine # <<>>
              THEN WrapFrom(Tail(words), Append(lines, currentLine), word, maxWidth10)
              ELSE WrapFrom(Tail(words), lines, testLine, maxWidth10)

\* wrapText(ctx, text, maxWidth), lines 156-175
wrapText(text, maxWidth10) == WrapFrom(Split(text), <<>>, <<>>, maxWidth10)

\* a section with some content and a canvas of some width, before its paint
\* cache is built
InitWrap ==
  /\ op = "paintCache" /\ sections = <<>> /\ fps = 1
  /\ hasAudio = FALSE /\ signalAborted = FALSE /\ ttsAvail = FALSE
  /\ sinceEmit = 0 /\ codec = NoCodec
  /\ \E text \in Texts, w \in CanvasWidths :
       paint = [at |-> "section", content |-> text, width |-> w,
                contentLines |-> <<>>, lines |-> 0]
  /\ InitState

\* createSectionPaintCache, as far as the content goes: lines 68-71
CreateSectionPaintCache ==
  /\ paint.at = "section"
  /\ LET maxWidth10 == paint.width * 8
         contentLines == wrapText(paint.content, maxWidth10)
     IN paint' = [paint EXCEPT !.at = "cache", !.contentLines = contentLines,
                               !.lines = Len(contentLines)]
  /\ UNCHANGED <<op, sections, fps, hasAudio, ttsAvail, codec, signalAborted, rvars,
                 evars, gvars, tvars, pvars, emittedLog, mvars>>

NextWrap == CreateSectionPaintCache

SpecWrap == InitWrap /\ [][NextWrap]_vars

(* ------------- VideoGenerationService.estimateGenerationTime ----------- *)
\* The section lists it is called with: durations in units of 1/DurDen s,
\* zero, one unit, and a long duration.
EstDurations == {0, 1, EstLong}
EstSectionLists == UNION {[1..n -> EstDurations] : n \in 0..MaxSections}

\* an estimate rounded down
EstimateFloor(durs, f) ==
  LET totalDuration == SumDur(durs)
      frames == Ceil(totalDuration * f, DurDen)
  IN (100 * totalDuration + 36 * DurDen * frames) \div (1200 * DurDen)

\* estimateGenerationTime(sections), part_002 lines 292-301:
\*   ttsTime = (totalDuration / 60) * 5, frameTime + renderTime = frames * 0.03,
\*   their sum over the common denominator 1200 * DurDen
estimateGenerationTime(durs, f) ==
  LET totalDuration == SumDur(durs)
      frames == Ceil(totalDuration * f, DurDen)
  IN Ceil(100 * totalDuration + 36 * DurDen * frames, 1200 * DurDen)

\* a service constructed with some fps, nothing running
InitEstimate ==
  /\ op = "estimate" /\ sections = <<>>
  /\ fps \in 1..MaxFps
  /\ hasAudio = FALSE /\ signalAborted = FALSE /\ ttsAvail = FALSE
  /\ sinceEmit = 0 /\ codec = NoCodec /\ paint = NoPaint
  /\ InitState

\* one call of estimateGenerationTime
EstimateGenerationTime ==
  /\ op = "estimate"
  /\ \E durs \in EstSectionLists :
       estimate' = [last |-> [durations |-> durs,
                              seconds |-> estimateGenerationTime(durs, fps)],
                    prev |-> estimate.last]
  /\ UNCHANGED <<ivars, signalAborted, rvars, evars, gvars, tvars, pvars, emittedLog,
                 svars, clock, dbl, pixels>>

NextEstimate == EstimateGenerationTime

SpecEstimate == InitEstimate /\ [][NextEstimate]_vars

(* --------- renderToCanvas: its time arithmetic in IEEE-754 doubles ------ *)
\* A JavaScript number is a binary64 value: every arithmetic result is the
\* exact result rounded to Precision significant bits, ties to even.  A
\* non-negative number is kept as the natural number value * 2^FracBits,
\* written in limbs of LimbBits bits, lowest first, without leading zero
\* limbs (zero is <<>>); all values of a run are multiples of 2^-FracBits.
Limb == 2 ^ LimbBits
FracBits == FracLimbs * LimbBits

RECURSIVE LimbsOf(_)
LimbsOf(n) == IF n = 0 THEN <<>> ELSE <<n % Limb>> \o LimbsOf(n \div Limb)

RECURSIVE NatOf(_)
NatOf(b) == IF b = <<>> THEN 0 ELSE b[1] + Limb * NatOf(Tail(b))

\* a limb in front of the higher limbs hi
Cons(limb, hi) == IF limb = 0 /\ hi = <<>> THEN <<>> ELSE <<limb>> \o hi

RestOf(b) == IF b = <<>> THEN <<>> ELSE Tail(b)
LowLimb(b) == IF b = <<>> THEN 0 ELSE b[1]

RECURSIVE AddLimbs(_, _, _)
\* a + b + carry
AddLimbs(a, b, carry) ==
  IF a = <<>> /\ b = <<>> THEN LimbsOf(carry)
  ELSE LET t == LowLimb(a) + LowLimb(b) + carry
       IN <<t % Limb>> \o AddLimbs(RestOf(a), RestOf(b), t \div Limb)

RECURSIVE MulSmall(_, _, _)
\* a * k + carry, for a natural number 0 < k < Limb
MulSmall(a, k, carry) ==
  IF a = <<>> THEN LimbsOf(carry)
  ELSE LET t == a[1] * k + carry
       IN <<t % Limb>> \o MulSmall(Tail(a), k, t \div Limb)

RECURSIVE DivSmall(_, _)
\* quotient and remainder of a by a natural number 0 < k < Limb
DivSmall(a, k) ==
  IF a = <<>> THEN [q |-> <<>>, r |-> 0]
  ELSE LET hi == DivSmall(Tail(a), k)
           t == hi.r * Limb + a[1]
       IN [q |-> Cons(t \div k, hi.q), r |-> t % k]

\* the number of bits of a
BitLength(a) ==
  IF a = <<>> THEN 0
  ELSE LimbBits * (Len(a) - 1)
       + (CHOOSE n \in 1..LimbBits : 2 ^ (n - 1) <= a[Len(a)] /\ a[Len(a)] < 2 ^ n)

\* a * 2^s
ShiftLeft(a, s) ==
  IF a = <<>> THEN <<>>
  ELSE [j \in 1..(s \div LimbBits) |-> 0] \o MulSmall(a, 2 ^ (s % LimbBits), 0)

\* a / 2^s rounded down, and whether anything was cut off
ShiftRight(a, s) ==
  LET w == s \div LimbBits
      d == DivSmall(SubSeq(a, w + 1, Len(a)), 2 ^ (s % LimbBits))
  IN [q |-> d.q, inexact |-> d.r # 0 \/ \E j \in 1..w : j <= Len(a) /\ a[j] # 0]

\* a < b
LessLimbs(a, b) ==
  IF Len(a) # Len(b) THEN Len(a) < Len(b)
  ELSE \E k \in 1..Len(a) :
         a[k] < b[k] /\ \A j \in (k + 1)..Len(a) : a[j] = b[j]

\* the double nearest to a (+ something below its last bit when sticky)
RoundToDouble(a, sticky) ==
  IF BitLength(a) <= Precision THEN a
  ELSE LET t == BitLength(a) - Precision
           cut == ShiftRight(a, t - 1)
           kept == DivSmall(cut.q, 2)
           up == kept.r = 1 /\ (sticky \/ cut.inexact \/ kept.q[1] % 2 = 1)
       IN ShiftLeft(IF up THEN AddLimbs(kept.q, <<1>>, 0) ELSE kept.q, t)

\* the double a / b of two small natural numbers (a = 0 or a / b >= 2^-10):
\* the quotient i / fps, and a decimal literal like 0.28 = 28 / 100
DoubleOfRatio(a, b) ==
  LET d == DivSmall(ShiftLeft(LimbsOf(a), FracBits), b)
  IN RoundToDouble(d.q, d.r # 0)

\* x * k in doubles, k a small natural number
DoubleTimes(x, k) == RoundToDouble(MulSmall(x, k, 0), FALSE)

\* x + y in doubles
DoublePlus(x, y) == RoundToDouble(AddLimbs(x, y, 0), FALSE)

\* Math.ceil(x) of a double of moderate size, as a natural number
CeilOfDouble64(x) ==
  NatOf(SubSeq(x, FracLimbs + 1, Len(x)))
  + (IF \E j \in 1..FracLimbs : j <= Len(x) /\ x[j] # 0 THEN 1 ELSE 0)

\* section lists with durations of some hundredths of a second
Centis == (MaxCenti - 3)..MaxCenti
DoubleSectionLists ==
  UNION {[1..n -> {DoubleOfRatio(c, 100) : c \in Centis}] : n \in 1..MaxSections}

\* Math.ceil(section.duration * this.options.fps), line 88
DoubleSectionFrames(d) == CeilOfDouble64(DoubleTimes(d, fps))

\* the for loops of lines 87-120 as in the sequencer above
DoubleEnded ==
  dbl.sec <= Len(dbl.durations) /\ dbl.i >= DoubleSectionFrames(dbl.durations[dbl.sec])
DoubleSec == IF DoubleEnded THEN dbl.sec + 1 ELSE dbl.sec
DoubleI == IF DoubleEnded THEN 0 ELSE dbl.i
\* currentTime += section.duration, line 119
DoubleTime ==
  IF DoubleEnded THEN DoublePlus(dbl.currentTime, dbl.durations[dbl.sec])
  ELSE dbl.currentTime

\* a run of renderToCanvas at DoubleFps frames per second
InitDouble ==
  /\ op = "renderDoubles" /\ sections = <<>>
  /\ fps = DoubleFps
  /\ hasAudio = FALSE /\ signalAborted = FALSE /\ ttsAvail = FALSE
  /\ sinceEmit = 0 /\ codec = NoCodec /\ paint = NoPaint
  /\ InitState

\* renderToCanvas is called with some sections, lines 51-86
DoubleEnter ==
  /\ op = "renderDoubles" /\ dbl.at = "unused"
  /\ \E ds \in DoubleSectionLists :
       dbl' = [dbl EXCEPT !.at = "loop", !.durations = ds]
  /\ UNCHANGED <<ivars, signalAborted, rvars, evars, gvars, tvars, pvars, emittedLog,
                 svars, clock, estimate, pixels>>

\* one frame: timestamp = currentTime + i / fps, line 98, and paintFrame
DoublePaint ==
  /\ dbl.at = "loop" /\ DoubleSec <= Len(dbl.durations)
  /\ dbl' = [dbl EXCEPT !.sec = DoubleSec, !.i = DoubleI + 1,
                        !.currentTime = DoubleTime,
                        !.count = dbl.count + 1,
                        !.ts = DoublePlus(DoubleTime, DoubleOfRatio(DoubleI, fps)),
                        !.prevTs = dbl.ts, !.prevSec = dbl.sec]
  /\ UNCHANGED <<ivars, signalAborted, rvars, evars, gvars, tvars, pvars, emittedLog,
                 svars, clock, estimate, pixels>>

\* the loops end and renderToCanvas returns
DoubleComplete ==
  /\ dbl.at = "loop" /\ DoubleSec > Len(dbl.durations)
  /\ dbl' = [dbl EXCEPT !.at = "returned", !.sec = DoubleSec, !.i = DoubleI,
                        !.currentTime = DoubleTime]
  /\ UNCHANGED <<ivars, signalAborted, rvars, evars, gvars, tvars, pvars, emittedLog,
                 svars, clock, estimate, pixels>>

NextDouble == DoubleEnter \/ DoublePaint \/ DoubleComplete

SpecDouble == InitDouble /\ [][NextDouble]_vars

(* ------------- renderVideoFromSections at a fast frame rate ------------- *)
\* a run whose pacing timer (1000 / fps ms) is shorter than the throttle gap;
\* the recorder stays silent and nobody aborts
InitPace ==
  /\ op = "renderFromSections"
  /\ sections \in SectionLists
  /\ fps = FastFps
  /\ hasAudio = FALSE
  /\ signalAborted = FALSE
  /\ sinceEmit \in PageAges
  /\ ttsAvail = FALSE
  /\ codec = NoCodec /\ paint = NoPaint
  /\ InitState

NextPace ==
  \/ RfsBegin \/ RfsRecord
  \/ SeqEnter \/ SeqPaint \/ SeqPaintFails \/ SeqComplete

SpecPace == InitPace /\ [][NextPace]_vars

\* the pacing timers of the sequencer fire
SeqStep == SeqAbort \/ SeqPaint \/ SeqPaintFails \/ SeqComplete

FairSpec == Spec /\ WF_vars(SeqStep)

\* the awaits of the set-up return as well: the audio decode settles, and
\* the recorder and the sequencer are started in the task that follows
SetupStep == RfsDecode \/ RfsRecord \/ SeqEnter

FairSpecRender == Spec /\ WF_vars(SetupStep) /\ WF_vars(SeqStep)

(* ======================= the claims, C1 .. C10 ========================= *)
\* ceil(d * f) as the least integer not below d * f / DurDen
CeilOfProduct(d, f) ==
  CHOOSE n \in 0..(d * f) : n * DurDen >= d * f /\ (n - 1) * DurDen < d * f

RECURSIVE SumOfCeils(_, _)
SumOfCeils(s, f) ==
  IF s = <<>> THEN 0 ELSE CeilOfProduct(Head(s), f) + SumOfCeils(Tail(s), f)

RECURSIVE FramesInOrder(_)
FramesInOrder(k) ==
  IF k > Len(sections) THEN <<>>
  ELSE [j \in 1..CeilOfProduct(sections[k], fps) |-> <<k, j - 1>>] \o FramesInOrder(k + 1)

PaintedOrder == [k \in 1..Len(painted) |-> <<painted[k].sec, painted[k].i>>]

\* renderToCanvas resolved / generateFrames returned
SequencerReturned == pc = "finished" /\ seqErr = "none" /\ totalFrames = TotalFrames(sections, fps)
                     /\ (op = "renderFromSections" => stopCalls > 0)

C2_TotalFramesIsSumOfCeils ==
  cb # NoCb => cb.total = SumOfCeils(sections, fps)

\* C3: at every frame boundary of renderToCanvas the token is checked: when
\* it is aborted the step paints nothing and throws AbortError, and no frame
\* is painted afterwards; when it is not, the step paints its frame (or the
\* painter throws).
C3_BoundaryCheck ==
  /\ [][(InLoop /\ ~LoopDone /\ rvars' # rvars) =>
          IF signalAborted
            THEN painted' = painted /\ seqErr' = "AbortError" /\ pc' = "finished"
            ELSE \/ Len(painted') = Len(painted) + 1 /\ seqErr' = "none"
                 \/ painted' = painted /\ seqErr' = "PaintError"]_vars
  /\ [][seqErr = "AbortError" => painted' = painted /\ seqErr' = seqErr]_vars

C3_Witness ==
  /\ seqErr = "AbortError" /\ Len(painted) >= 1
  /\ Len(painted) < SumOfCeils(sections, fps)

\* the token is aborted while the sequencer is suspended between two frames
AbortedMidRun ==
  /\ op = "renderFromSections" /\ pc = "await" /\ ~LoopDone
  /\ signalAborted /\ Len(painted) >= 1

C6_CancelStopsTheRun ==
  cancelCalls > 0 => result.kind # "resolved"

\* C7: renderVideoFromSections resolves only after the sequencer has painted
\* every frame and the renderer itself has stopped the recorder.
C7_NoPartialOutput ==
  (op = "renderFromSections" /\ result.kind = "resolved") =>
    /\ pc = "finished" /\ seqErr = "none"
    /\ Len(painted) = SumOfCeils(sections, fps)
    /\ recCause = "stop()"

C9_EncoderError ==
  /\ [][(op = "renderFromSections" /\ pc = "await" /\ recCause # "error"
           /\ recCause' = "error") => result' = Rejected("EncoderError")]_vars
  /\ (op = "renderFromSections" /\ recCause = "error")
       ~> (stopCalls >= 1 /\ tracksStopped /\ result = Rejected("EncoderError"))
  /\ [](startCalls <= 1)

C9_Witness ==
  /\ op = "renderFromSections" /\ recCause = "error"
  /\ result = Rejected("EncoderError") /\ stopCalls >= 1 /\ tracksStopped
  /\ pc = "finished"

StageOrder ==
  <<"tts", "tts_done", "frames", "frames_done", "motion", "motion_done",
    "render", "render_done">>

\* C10: generateVideo starts its stages in the order tts, frames, motion,
\* render, each once and each after the previous one completed, and returns
\* the artifact only after the render stage completed.
C10_StagesInOrder ==
  /\ Len(stageLog) <= Len(StageOrder)
  /\ stageLog = SubSeq(StageOrder, 1, Len(stageLog))
  /\ stage \in {"frames", "motion", "render", "done"} => ttsResolved
  /\ stage \in {"render", "done"} => MotionLoopEnds(motionI)
  /\ result.kind = "resolved" => stageLog = StageOrder /\ stage = "done"

C10_Witness ==
  /\ op = "generateVideo" /\ result.kind = "resolved"
  /\ stageLog = StageOrder /\ Len(painted) >= 1 /\ drawn = Len(painted)

(* ======================= the claims, C11 .. C20 ======================== *)
\* the place of a step in the order tts < frames < motion < render
Rank(st) ==
  CASE st = "tts" -> 1 [] st = "frames" -> 2 [] st = "motion" -> 3
    [] st = "render" -> 4 [] OTHER -> 0

\* C11: in the progress stream of generateVideo no event carries a step
\* earlier than the step of an event delivered before it.
C11_StepsNeverGoBack ==
  \A k \in 1..Len(evs) :
    /\ Rank(evs[k].step) >= hist.top
    /\ \A j \in 1..(k - 1) : Rank(evs[k].step) >= Rank(evs[j].step)

\* C12: a sequencer run over a non-empty section list that returns has
\* delivered, on its last painted frame, a progress callback with
\* currentFrame = totalFrames (progress 100), and that was its last callback.
C12_FinalCallback ==
  (SequencerReturned /\ painted # <<>>) =>
    cb # NoCb /\ cb.cur = Len(painted) /\ cb.cur = cb.total

\* C13: every progress value delivered by the sequencer (which
\* renderVideoFromSections and generateVideo pass on) and every progress value
\* of a generateVideo event lies between 0 and 100.
C13_ProgressInRange ==
  /\ cb # NoCb => (0 <= cb.cur /\ cb.cur * 100 <= 100 * cb.total)
  /\ \A k \in 1..Len(evs) : 0 <= evs[k].n /\ evs[k].n <= 100 * evs[k].d

\* C14: among the events of one generateVideo run that carry the same step,
\* no progress value is smaller than one delivered before it.
C14_MonotonicWithinStep ==
  \A k \in 1..Len(evs) :
    /\ hist.prog[evs[k].step].n * evs[k].d <= evs[k].n * hist.prog[evs[k].step].d
    /\ \A j \in 1..(k - 1) :
         evs[j].step = evs[k].step => evs[j].n * evs[k].d <= evs[k].n * evs[j].d

\* the ids of the non-empty chunks the recorder has emitted, in emission order
NonEmptyEmitted ==
  SelectSeq([k \in 1..Len(emittedLog) |-> k], LAMBDA k : emittedLog[k])

\* C15: chunks always holds the non-empty chunks emitted so far, once each and
\* in emission order; the artifact exists only once the stop event has fired
\* and is the concatenation of exactly those chunks in that order.
C15_ChunksInEmissionOrder ==
  op = "renderFromSections" =>
    /\ chunks = NonEmptyEmitted
    /\ result.kind = "resolved" =>
         recPending = "done" /\ result.blob = NonEmptyEmitted

C15_Witness ==
  /\ op = "renderFromSections" /\ result.kind = "resolved"
  /\ Len(emittedLog) = 2 /\ Len(result.blob) = 2

\* the codec-preference list of a renderer: the configured type (VP9 when
\* none is configured), then VP8, then the generic WebM container
Preference == <<IF codec.configured = "absent" THEN "vp9" ELSE codec.configured, "vp8", "webm">>

SomeSupported == \E k \in 1..3 : Preference[k] \in codec.supported

FirstSupported ==
  Preference[CHOOSE k \in 1..3 :
               /\ Preference[k] \in codec.supported
               /\ \A j \in 1..(k - 1) : Preference[j] \notin codec.supported]

\* C16: when some option of the preference list is supported, the constructed
\* renderer holds the first supported one; the recorder is created with it and
\* the artifact is tagged with it.
C16_FirstSupportedCodec ==
  /\ (codec.at \notin {"unused", "new"} /\ SomeSupported) =>
       codec.mimeType = FirstSupported /\ codec.at # "notSupported"
  /\ codec.at \in {"recorder", "blob"} => codec.recMime = codec.mimeType
  /\ codec.at = "blob" => codec.blobType = codec.recMime

\* VP9 is not supported, VP8 is: the artifact is tagged VP8
C16_Witness ==
  /\ codec.at = "blob" /\ codec.configured = "absent"
  /\ "vp9" \notin codec.supported /\ "vp8" \in codec.supported
  /\ codec.blobType = "vp8"

\* audio bytes were supplied and decoding them (or attaching the track) failed
DecodeFailed ==
  /\ op = "renderFromSections" /\ hasAudio
  /\ pc \notin {"start", "decode"} /\ ~audioTrack

\* C17: the audio branch, whether it succeeds or fails, goes on to create and
\* start the recorder with the operation still pending; after a failure no
\* audio track is attached, and a run in which the sequencer then returns and
\* the renderer stops the recorder has painted every frame and resolves.
C17_DecodeFailureNotFatal ==
  /\ [][(pc = "decode" /\ pc' # pc) => (pc' = "record" /\ result' = Pending)]_vars
  /\ [][(pc = "record" /\ pc' # pc) => startCalls' = startCalls + 1]_vars
  /\ [](DecodeFailed => result.err # "DecodeError")
  /\ []((DecodeFailed /\ SequencerReturned /\ recCause = "stop()" /\ recPending = "done") =>
          /\ result = Resolved(chunks)
          /\ Len(painted) = SumOfCeils(sections, fps))

C17_Witness ==
  /\ DecodeFailed /\ SequencerReturned /\ recCause = "stop()"
  /\ result.kind = "resolved" /\ Len(painted) = 2 /\ startCalls = 1

C19_EmptyListIsFatal ==
  (sections = <<>> /\ op \in {"renderFromSections", "generateVideo"}) =>
    /\ stageLog = <<>> /\ startCalls = 0
    /\ result.kind # "resolved"

\* the stage generateVideo has started and not completed
OpenStage ==
  IF stageLog = <<>> THEN "none" ELSE stageLog[Len(stageLog)]

\* C20: a failure of a stage fails the whole run of generateVideo: the run is
\* rejected with the error of that stage, and from then on no stage is
\* started or completed, the encoder is not started and the outcome does not
\* change; no stage is started twice.
C20_StageFailureFailsRun ==
  /\ [](op = "generateVideo" =>
          /\ result.kind = "rejected" <=> stage = "failed"
          /\ (stage = "failed" /\ OpenStage = "frames") =>
               seqErr = "PaintError" /\ result = Rejected(seqErr) /\ startCalls = 0
          /\ stage = "failed" => OpenStage \in {"frames", "render"}
          /\ seqErr # "none" => stage = "failed"
          /\ \A a, b \in 1..Len(stageLog) : stageLog[a] = stageLog[b] => a = b)
  /\ [][stage = "failed" =>
          /\ stage' = "failed" /\ result' = result
          /\ stageLog' = stageLog /\ startCalls' = startCalls
          /\ painted' = painted /\ motionI' = motionI]_vars

\* the encoder reported an error while renderVideo was drawing
C20_Witness ==
  /\ op = "generateVideo" /\ stage = "failed"
  /\ result = Rejected("EncoderError") /\ OpenStage = "render" /\ drawn >= 1

(* ======================= the claims, C21 .. C30 ======================== *)
\* painted[k] is the first frame painted for its section
FirstOfSection(k) == k = 1 \/ painted[k - 1].sec # painted[k].sec

\* painted[k] is the last frame painted for its section, all frames of the
\* section having been painted
LastOfSection(k) ==
  IF k < Len(painted) THEN painted[k + 1].sec # painted[k].sec
  ELSE SequencerReturned

RECURSIVE DurationBefore(_)
DurationBefore(k) == IF k <= 1 THEN 0 ELSE DurationBefore(k - 1) + sections[k - 1]

\* every d * F is an integer
WholeFrames == \A j \in 1..Len(sections) : (sections[j] * fps) % DurDen = 0

C23_FrameIndex ==
  /\ [](frameCount = Len(painted) /\ (cb # NoCb => cb.cur <= frameCount))
  /\ [][IF painted' # painted
          THEN /\ Len(painted') = Len(painted) + 1 /\ frameCount' = frameCount + 1
               /\ (cb' # NoCb => cb'.cur = frameCount + 1)
          ELSE frameCount' = frameCount /\ cb' = cb]_vars

\* the first frame of the second section was painted and reported with
\* currentFrame 3
C23_Witness ==
  /\ op = "renderFromSections" /\ Len(painted) = 3 /\ painted[3].sec = 2
  /\ painted[3].i = 0 /\ frameCount = 3 /\ cb # NoCb /\ cb.cur = 3

\* C24: a run of renderVideoFromSections creates exactly one canvas, opens
\* the capture stream from it and paints every frame of every section into
\* it, however many frames there are.
C24_OneSurface ==
  op = "renderFromSections" =>
    /\ surfaces = (IF pc = "start" THEN 0 ELSE 1)
    /\ captured = surfaces
    /\ \A k \in 1..Len(painted) : painted[k].canvas = captured

\* four frames of two sections were painted into the one canvas
C24_Witness ==
  /\ op = "renderFromSections" /\ SequencerReturned /\ Len(sections) = 2
  /\ Len(painted) = 4 /\ surfaces = 1 /\ painted[4].canvas = 1

\* C25: in a run of generateVideo (whose frames stage is generateFrames) the
\* canvases allocated do not grow with the number of frames: one frame buffer
\* is created and every paint call gets that same buffer.
C25_ConstantSurfaces ==
  op \in {"generateFrames", "generateVideo"} =>
    /\ surfaces <= 1
    /\ \A k \in 1..Len(painted) : painted[k].canvas = painted[1].canvas

\* C26: in a renderToCanvas run the paint cache has been built once for each
\* section painted so far, whatever the number of frames; k times in a run
\* that returned over k sections.
C26_CacheOncePerSection ==
  op = "renderFromSections" =>
    /\ cacheBuilds = Cardinality({painted[k].sec : k \in 1..Len(painted)})
    /\ SequencerReturned => cacheBuilds = Len(sections)

\* C27: in renderVideoFromSections the audio decode is attempted at most
\* once and only when audio was supplied, it has finished (well or badly)
\* before the encoder is started, the encoder is started before the first
\* frame is painted, and no frame is painted while a decode is in progress.
C27_DecodeBeforeStreaming ==
  op = "renderFromSections" =>
    /\ decodeCalls <= 1 /\ (decodeCalls = 1 => hasAudio)
    /\ startCalls > 0 => (pc \notin {"start", "decode"} /\ (hasAudio => decodeCalls = 1))
    /\ painted # <<>> => (startCalls = 1 /\ pc \notin {"start", "decode", "record"})
    /\ pc = "decode" => (painted = <<>> /\ startCalls = 0 /\ decodeCalls = 0)

\* audio was decoded, then the encoder was started, then frames were painted
C27_Witness ==
  /\ op = "renderFromSections" /\ hasAudio /\ audioTrack /\ decodeCalls = 1
  /\ startCalls = 1 /\ Len(painted) >= 2

\* C28: between two consecutive progress callbacks of a renderToCanvas run at
\* least 120 ms elapse, unless the later one is the final callback, the one
\* on the last frame of the run.
C28_ThrottleGap ==
  (op = "renderFromSections" /\ cb # NoCb /\ lastGap # -1
     /\ cb.cur # SumOfCeils(sections, fps)) =>
    lastGap >= ThrottleMs

\* C29: Opacity(p) is 10p on [0, 0.1], 1 on [0.1, 0.9] and 10(1 - p) on
\* [0.9, 1]; so it is 0 at p = 0 and p = 1, 1 at p = 0.5, the two pieces
\* meeting at 0.1 and at 0.9 agree there (value 1), and it lies in [0, 1].
C29_Opacity ==
  paint.at = "painted" =>
    /\ 10 * paint.p <= ProgressDen => paint.opacity = 10 * paint.p
    /\ (ProgressDen <= 10 * paint.p /\ 10 * paint.p <= 9 * ProgressDen) =>
         paint.opacity = ProgressDen
    /\ 9 * ProgressDen <= 10 * paint.p => paint.opacity = 10 * (ProgressDen - paint.p)
    /\ paint.p = 0 => paint.opacity = 0
    /\ 2 * paint.p = ProgressDen => paint.opacity = ProgressDen
    /\ paint.p = ProgressDen => paint.opacity = 0
    /\ 0 <= paint.opacity /\ paint.opacity <= ProgressDen

\* a frame painted while the text fades out, at progress 0.95
C29_Witness ==
  /\ paint.at = "painted" /\ 20 * paint.p = 19 * ProgressDen
  /\ 2 * paint.opacity = ProgressDen

\* the least m with m >= 2 * n * p, for p = k / ProgressDen
CeilOfDouble(k, n) == CHOOSE m \in 0..(2 * n) : m * ProgressDen >= 2 * n * k
                                               /\ (m - 1) * ProgressDen < 2 * n * k

\* C30: VisibleLines(p, n) is min(n, ceil(2 n p)): it is 0 at p = 0, n for
\* every p >= 0.5, never above n, and of two calls for the same n the one
\* with the larger p never shows fewer lines.
C30_VisibleLines ==
  paint.at = "painted" =>
    /\ paint.visible = (IF CeilOfDouble(paint.p, paint.lines) < paint.lines
                          THEN CeilOfDouble(paint.p, paint.lines) ELSE paint.lines)
    /\ paint.p = 0 => paint.visible = 0
    /\ 2 * paint.p >= ProgressDen => paint.visible = paint.lines
    /\ 0 <= paint.visible /\ paint.visible <= paint.lines
    /\ (paint.prevP # -1 /\ paint.prevP <= paint.p) => paint.prevVisible <= paint.visible
    /\ (paint.prevP # -1 /\ paint.prevP >= paint.p) => paint.prevVisible >= paint.visible

\* three lines: one visible at progress 0.1, then all at progress 0.5
C30_Witness ==
  /\ paint.at = "painted" /\ paint.lines = 3
  /\ 10 * paint.prevP = ProgressDen /\ paint.prevVisible = 1
  /\ 2 * paint.p = ProgressDen /\ paint.visible = 3

(* ------------------------- claims C31 .. C40 --------------------------- *)
RECURSIVE JoinWithSpaces(_)
\* lines.join(' ')
JoinWithSpaces(ls) ==
  IF ls = <<>> THEN <<>>
  ELSE IF Len(ls) = 1 THEN ls[1]
  ELSE ls[1] \o <<" ">> \o JoinWithSpaces(Tail(ls))

\* C31: joining the lines wrapText returned with single spaces gives back
\* the content it was called with, whatever spaces the content has.
C31_WrapRoundTrip ==
  paint.at = "cache" => JoinWithSpaces(paint.contentLines) = paint.content

\* a line has two or more words when it has a space in it
HasSpace(line) == \E k \in 1..Len(line) : line[k] = " "

RECURSIVE WidthOf(_, _)
\* the width of the first k characters of a line, a wide letter counting two
WidthOf(line, k) ==
  IF k = 0 THEN 0 ELSE WidthOf(line, k - 1) + (IF line[k] = "m" THEN 2 ELSE 1)

\* the first word of a line: its characters before the first space
FirstWord(line) ==
  IF HasSpace(line)
    THEN SubSeq(line, 1, (CHOOSE k \in 1..Len(line) :
                            line[k] = " " /\ \A j \in 1..(k - 1) : line[j] # " ") - 1)
    ELSE line

\* the words of a text: the stretches between two spaces or a space and an end
WordsOf(text) ==
  {SubSeq(text, ab[1], ab[2]) : ab \in
     {ab \in (1..Len(text)) \X (1..Len(text)) :
        /\ ab[1] <= ab[2]
        /\ \A k \in ab[1]..ab[2] : text[k] # " "
        /\ (ab[1] = 1 \/ text[ab[1] - 1] = " ")
        /\ (ab[2] = Len(text) \/ text[ab[2] + 1] = " ")}}

\* C32: with maxWidth = 80% of the canvas width, no line of two or more
\* words that wrapText produced is wider than maxWidth, a line is closed
\* only when the next word no longer fits on it, and a word that is wider
\* than maxWidth on its own is a line of its own.
C32_GreedyPacking ==
  paint.at = "cache" =>
    LET ls == paint.contentLines
        fits(line) == 10 * WidthOf(line, Len(line)) <= 8 * paint.width
    IN /\ \A j \in 1..Len(ls) : HasSpace(ls[j]) => fits(ls[j])
       /\ \A j \in 1..(Len(ls) - 1) : ~fits(ls[j] \o <<" ">> \o FirstWord(ls[j + 1]))
       /\ \A w \in WordsOf(paint.content) :
            ~fits(w) => \E j \in 1..Len(ls) : ls[j] = w

\* two narrow words share a line and the wide word after them starts the next
C32_Witness ==
  /\ paint.at = "cache" /\ paint.width = 4
  /\ paint.content = <<"i", " ", "i", " ", "m">>
  /\ paint.contentLines = << <<"i", " ", "i">>, <<"m">> >>

RECURSIVE TotalOf(_)
\* the sum of a list of durations
TotalOf(durs) == IF durs = <<>> THEN 0 ELSE durs[1] + TotalOf(Tail(durs))

\* no section of list a is longer than the section of list b in its place
NoLonger(a, b) == Len(a) = Len(b) /\ \A k \in 1..Len(a) : a[k] <= b[k]

\* C33: estimateGenerationTime returns a whole number of seconds, positive
\* when the total duration is positive and 0 for an empty list; a call with
\* longer sections never returns less; and a call changes nothing else.
C33_Estimate ==
  /\ [](estimate.last.seconds # -1 =>
          /\ estimate.last.seconds \in Nat
          /\ TotalOf(estimate.last.durations) > 0 => estimate.last.seconds > 0
          /\ estimate.last.durations = <<>> => estimate.last.seconds = 0
          /\ (estimate.prev.seconds # -1
              /\ NoLonger(estimate.prev.durations, estimate.last.durations))
               => estimate.prev.seconds <= estimate.last.seconds)
  /\ [][estimate' # estimate =>
          UNCHANGED <<ivars, signalAborted, rvars, evars, gvars, tvars, pvars,
                      emittedLog, svars, clock, dbl, pixels>>]_vars

\* half a second estimated at one second, then a longer list at more
C33_Witness ==
  /\ estimate.prev.durations = <<1>> /\ estimate.prev.seconds = 1
  /\ estimate.last.durations = <<EstLong>> /\ estimate.last.seconds > 1

\* C34: in a sequencer run every painted frame has a timestamp strictly
\* above that of the frame painted before it, also from the last frame of a
\* section to the first frame of the next, whatever the positive durations
\* and the frame rate.
C34_TimestampsIncrease ==
  dbl.count >= 2 => LessLimbs(dbl.prevTs, dbl.ts)

\* C35: in generateVideo, after each draw step of renderVideo the captured
\* canvas shows the content generated for the frame just drawn, and every
\* frame still to be drawn still has the content it was generated with.
C35_DrawShowsFrame ==
  (op = "generateVideo" /\ drawn >= 1) =>
    /\ pixels[captured] = drawn
    /\ \A j \in (drawn + 1)..Len(painted) : pixels[painted[j].canvas] = j

\* the progress events of textToSpeech in a batch of delivered events
TtsEvents(batch) == SelectSeq(batch, LAMBDA e : e.step = "tts")

\* C36: once the promise of textToSpeech has resolved, no progress callback
\* of that call runs any more, whatever the order of the end, error and
\* boundary events and of the fallback and interval timers; and the last
\* progress reported before it resolves is 100.
C36_QuietAfterResolve ==
  [][/\ ttsResolved => (evs' = evs \/ TtsEvents(evs') = <<>>)
     /\ (~ttsResolved /\ ttsResolved') =>
          /\ TtsEvents(evs') # <<>>
          /\ LET last == TtsEvents(evs')[Len(TtsEvents(evs'))]
             IN last.n = 100 * last.d]_vars

\* C37: given only that timers fire, the promise of textToSpeech is resolved
\* in finite time whatever the speech engine does after speak(): an end
\* event, an error event, boundary events only, or no event at all.
C37_AlwaysResolves == (stage = "tts") ~> ttsResolved

\* C38: in the page's step list at most one step is 'running' and every
\* step before it is 'complete'; a step that is 'complete' does not become
\* 'running' again in the same run; isGenerating is true from the start of
\* a run until it settles and false after success and after failure; a
\* handleGenerate call while isGenerating starts no second run.
C38_StepList ==
  /\ [](page.runs > 0 =>
          /\ \A a, b \in 1..4 :
               (page.steps[a] = "running" /\ page.steps[b] = "running") => a = b
          /\ \A a \in 1..4 :
               page.steps[a] = "running" =>
                 \A j \in 1..(a - 1) : page.steps[j] = "complete"
          /\ page.isGenerating <=> result.kind = "pending")
  /\ [][/\ \A a \in 1..4 :
             (page.runs > 0 /\ page.steps[a] = "complete") => page'.steps[a] # "running"
        /\ page.isGenerating => page'.runs = page.runs]_vars

\* the token is aborted after the boundary check of the last frame of the
\* last section, while renderToCanvas waits for that frame's pacing timer
LateAbort ==
  op = "renderFromSections" /\ pc = "await" /\ LoopDone /\ signalAborted

\* renderToCanvas has returned after such a late abort
LateAborted ==
  /\ op = "renderFromSections" /\ pc = "finished" /\ signalAborted
  /\ Len(painted) > 0 /\ Len(painted) = SumSectionFrames(sections, fps)

C40_TracksAlwaysStopped ==
  /\ (op = "renderFromSections" /\ captured # 0) ~> tracksStopped
  /\ [][(op = "renderFromSections" /\ result.kind = "rejected") => painted' = painted]_vars

====
